---- MODULE Spec2Model ----
(***************************************************************************)
(* The in-process metrics aggregator of the demo server                    *)
(* (src/src/utils/metricsStore.js): the MetricsStore singleton, the        *)
(* operations the routing layer and the reporting endpoints call on it,    *)
(* and the clock its timestamps are taken from.                            *)
(***************************************************************************)
EXTENDS Integers, Sequences, FiniteSets, TLC

(***************************************************************************)
(* Bounds of the model.                                                    *)
(***************************************************************************)
\* recordRequest invocations explored in one behaviour
MaxCalls == 3
\* clock steps explored in one behaviour, and the length of one step in ms
MaxTicks == 2
TickMs == 60000
\* Capacities used by the exploring specifications in place of the
\* program's 1000 and 50, so that eviction happens within MaxCalls calls.
TimesCap == 2
RecentCap == 2
\* request totals and buffer fill explored by the health specification
MaxTotal == 20

(***************************************************************************)
(* Program constants.                                                      *)
(***************************************************************************)
\* metricsStore.js:52-53, the capacity of performance.responseTimes
MaxResponseTimes == 1000
\* metricsStore.js:81-82, the capacity of recentRequests
MaxRecentRequests == 50
\* metricsStore.js:88, the rate window in ms
WindowMs == 60000
\* metricsStore.js:14, Infinity: above every response time of the model
Infinity == 1000000000
\* metricsStore.js:137, the health thresholds
HealthySuccessRate == 95
HealthyResponseTime == 1000

(***************************************************************************)
(* Inputs.                                                                 *)
(***************************************************************************)
\* the status code and the response time of a recorded request: every status
\* code around the two class boundaries, and two response times on either
\* side of the health threshold, each with a success and with an error
RequestInputs ==
    { <<199, 1501>>, <<200, 100>>, <<200, 1501>>, <<399, 1501>>, <<400, 100>>, <<500, 100>> }
\* the inputs and the periods of the specification of getMetricsForPeriod
PeriodInputs == { <<199, 100>>, <<200, 100>>, <<500, 100>> }
PeriodMinutes == {1, 2, 5}
\* the inputs of the specification with a caller that keeps getMetrics' result
SnapshotInputs == { <<200, 100>>, <<500, 100>> }
\* the response times of the traffic the health specification starts from
HealthResponseTimes == {100, 999, 1000, 1501}
Methods == {"GET"}
Paths == {"/api/users"}
\* req.ip as a sequence of characters: "::ffff:127.0.0.1"
Ips == { <<":", ":", "f", "f", "f", "f", ":", "1", "2", "7", ".", "0", ".", "0", ".", "1">> }
UserAgents == {"curl"}

VARIABLES
    metrics,    \* this.metrics of the singleton MetricsStore
    now,        \* the wall clock in ms, read by new Date() / Date.now()
    snapshot,   \* the object last returned by getMetrics, as the caller holds it
    health,     \* the object last returned by getHealthSummary
    history,    \* ghost: the requestData of every recordRequest since construction or the last resetMetrics, oldest first
    nCalls,     \* ghost: the number of recordRequest invocations since construction
    lastOp,     \* ghost: the operation that produced this state
    recordedAt, \* ghost: the clock reading (ms) at each call of history
    period,     \* the object last returned by getMetricsForPeriod
    users,      \* routes/api.js: the in-memory users collection
    applicationData, \* routes/api.js: the in-memory data collection
    response,   \* the last HTTP exchange: the request, the status and the body sent
    uuids,      \* the number of identifiers uuidv4() has handed out to elements
    env,        \* process.env: NODE_ENV and DISABLE_RATE_LIMIT
    hits,       \* the request count of the client in the rate limiter's window
    served,     \* ghost: the number of inbound requests that received a response
    loop,       \* the callback on the JavaScript stack and the statement it is at
    timer,      \* this.intervalId and the interval the runtime holds for it
    proc,       \* the server process: running, shutting down or exited
    monitor     \* the browser's SystemMonitor and the timers its page holds

vars == <<metrics, now, snapshot, health, history, nCalls, lastOp, recordedAt, period,
          users, applicationData, response, uuids, env, hits, served, loop, timer,
          proc, monitor>>

\* the aggregator and what its callers hold
storeVars == <<metrics, now, snapshot, health, history, nCalls, recordedAt, period>>
\* the state of the business routes
apiVars == <<users, applicationData, response, uuids>>
\* the state of the application around its routes
appVars == <<env, hits, served>>

\* the variables no operation of the store on its aggregate writes
\* the server process and the page that polls it
hostVars == <<proc, monitor>>
others == <<period, apiVars, appVars, loop, timer, hostVars>>

(***************************************************************************)
(* Helpers standing for the JavaScript built-ins the code uses.            *)
(***************************************************************************)
Min(a, b) == IF a < b THEN a ELSE b

MathRound_floor(num, den) == num \div den

\* Math.round(num / den) for num >= 0, den > 0: the nearest integer, halves up
MathRound(num, den) == (2 * num + den) \div (2 * den)

\* Array.prototype.reduce((sum, time) => sum + time, 0)
RECURSIVE SumSeq(_)
SumSeq(s) == IF s = <<>> THEN 0 ELSE Head(s) + SumSeq(Tail(s))

SliceLast_first(s, n) == IF Len(s) <= n THEN s ELSE SubSeq(s, 1, n)

\* Array.prototype.slice(-n): the last n elements
SliceLast(s, n) == IF Len(s) <= n THEN s ELSE SubSeq(s, Len(s) - n + 1, Len(s))

\* a slice that drops nothing
SliceFirst_whole(s, n) == s

\* Array.prototype.slice(0, n): the first n elements
SliceFirst(s, n) == SubSeq(s, 1, Min(n, Len(s)))

\* Date.prototype.toISOString at millisecond precision: the instant written
\* as its calendar fields <<hours since the epoch, minute, second, ms>>
toISOString(t) == << t \div 3600000, (t \div 60000) % 60, (t \div 1000) % 60, t % 1000 >>

\* new Date(isoString).getTime(): the fields read back into ms
DateParse(iso) == iso[1] * 3600000 + iso[2] * 60000 + iso[3] * 1000 + iso[4]

\* ip?.substring(0, 10) + '...'
TruncateIp(ip) == SubSeq(ip, 1, Min(10, Len(ip))) \o <<".", ".", ".">>

(***************************************************************************)
(* MetricsStore                                                            *)
(***************************************************************************)
\* constructor: the initial this.metrics
NewMetrics ==
    [ requests |-> [ total |-> 0, success |-> 0, errors |-> 0, perMinute |-> 0, peakRPM |-> 0 ],
      performance |-> [ responseTimes |-> <<>>, averageResponseTime |-> 0,
                        minResponseTime |-> Infinity, maxResponseTime |-> 0 ],
      recentRequests |-> <<>> ]

IsSuccess_upTo400(statusCode) == statusCode >= 200 /\ statusCode <= 400

\* recordRequest: the success / error classification of a status code
IsSuccess(statusCode) == statusCode >= 200 /\ statusCode < 400

recordCounts_errorsFrom400(r, statusCode) ==
    [ r EXCEPT !.total = @ + 1,
               !.success = IF IsSuccess(statusCode) THEN @ + 1 ELSE @,
               !.errors = IF statusCode >= 400 THEN @ + 1 ELSE @ ]

\* recordRequest: the request counters after the call
recordCounts(r, statusCode) ==
    [ r EXCEPT !.total = @ + 1,
               !.success = IF IsSuccess(statusCode) THEN @ + 1 ELSE @,
               !.errors = IF IsSuccess(statusCode) THEN @ ELSE @ + 1 ]

recordPerformance_maxOfLast(p, responseTime, timesCap) ==
    LET pushed == Append(p.responseTimes, responseTime)
        times == IF Len(pushed) > timesCap THEN SliceLast(pushed, timesCap) ELSE pushed
    IN [ responseTimes |-> times,
         averageResponseTime |-> MathRound(SumSeq(times), Len(times)),
         minResponseTime |-> IF responseTime < p.minResponseTime THEN responseTime ELSE p.minResponseTime,
         maxResponseTime |-> responseTime ]

recordPerformance_minMaxOfBuffer(p, responseTime, timesCap) ==
    LET pushed == Append(p.responseTimes, responseTime)
        times == IF Len(pushed) > timesCap THEN SliceLast(pushed, timesCap) ELSE pushed
        held == { times[i] : i \in 1..Len(times) }
    IN [ responseTimes |-> times,
         averageResponseTime |-> MathRound(SumSeq(times), Len(times)),
         minResponseTime |-> CHOOSE x \in held : \A y \in held : x <= y,
         maxResponseTime |-> CHOOSE x \in held : \A y \in held : x >= y ]

\* recordRequest: the performance block after the call; timesCap is the
\* capacity of responseTimes (1000 in the program)
recordPerformance(p, responseTime, timesCap) ==
    LET pushed == Append(p.responseTimes, responseTime)
        times == IF Len(pushed) > timesCap THEN SliceLast(pushed, timesCap) ELSE pushed
    IN [ responseTimes |-> times,
         averageResponseTime |-> MathRound(SumSeq(times), Len(times)),
         minResponseTime |-> IF responseTime < p.minResponseTime THEN responseTime ELSE p.minResponseTime,
         maxResponseTime |-> IF responseTime > p.maxResponseTime THEN responseTime ELSE p.maxResponseTime ]

\* recordRequest: the entry stored in recentRequests
recentRequest(requestData) ==
    [ method |-> requestData.method,
      path |-> requestData.path,
      statusCode |-> requestData.statusCode,
      responseTime |-> requestData.responseTime,
      timestamp |-> requestData.timestamp,
      ip |-> TruncateIp(requestData.ip) ]

\* recordRequest: recentRequests after unshift(recentRequest), before the
\* capacity check
unshiftRecent(recent, requestData) == <<recentRequest(requestData)>> \o recent

recordRecent_push(recent, requestData, recentCap) ==
    LET pushed == Append(recent, recentRequest(requestData))
    IN IF Len(pushed) > recentCap THEN SliceFirst(pushed, recentCap) ELSE pushed

\* recordRequest: recentRequests after the call; recentCap is its capacity
\* (50 in the program)
recordRecent(recent, requestData, recentCap) ==
    LET unshifted == unshiftRecent(recent, requestData)
    IN IF Len(unshifted) > recentCap THEN SliceFirst(unshifted, recentCap) ELSE unshifted

\* a recordRequest that also counts the request into the rate
recordRequest_countsRate(m, requestData, timesCap, recentCap) ==
    [ requests |-> [ recordCounts(m.requests, requestData.statusCode)
                        EXCEPT !.perMinute = @ + 1 ],
      performance |-> recordPerformance(m.performance, requestData.responseTime, timesCap),
      recentRequests |-> recordRecent(m.recentRequests, requestData, recentCap) ]

\* recordRequest as a function of this.metrics
recordRequest(m, requestData, timesCap, recentCap) ==
    [ requests |-> recordCounts(m.requests, requestData.statusCode),
      performance |-> recordPerformance(m.performance, requestData.responseTime, timesCap),
      recentRequests |-> recordRecent(m.recentRequests, requestData, recentCap) ]

requestsSince_strictlyAfter(recent, t, windowMs) ==
    SelectSeq(recent, LAMBDA req : DateParse(req.timestamp) > t - windowMs)

\* calculateRequestsPerMinute: the entries of recentRequests not older than
\* the window that ends at instant t
requestsSince(recent, t, windowMs) ==
    SelectSeq(recent, LAMBDA req : DateParse(req.timestamp) >= t - windowMs)

calculateRequestsPerMinute_noPeak(m, t) ==
    [ m EXCEPT !.requests.perMinute = Len(requestsSince(m.recentRequests, t, WindowMs)) ]

calculateRequestsPerMinute_peakFollows(m, t) ==
    LET perMinute == Len(requestsSince(m.recentRequests, t, WindowMs))
    IN [ m EXCEPT !.requests.perMinute = perMinute, !.requests.peakRPM = perMinute ]

\* calculateRequestsPerMinute as a function of this.metrics and the instant
calculateRequestsPerMinute(m, t) ==
    LET perMinute == Len(requestsSince(m.recentRequests, t, WindowMs))
    IN [ m EXCEPT !.requests.perMinute = perMinute,
                  !.requests.peakRPM = IF perMinute > @ THEN perMinute ELSE @ ]

resetMetrics_keepMax ==
    [ requests |-> [ total |-> 0, success |-> 0, errors |-> 0, perMinute |-> 0, peakRPM |-> 0 ],
      performance |-> [ responseTimes |-> <<>>, averageResponseTime |-> 0,
                        minResponseTime |-> Infinity,
                        maxResponseTime |-> metrics.performance.maxResponseTime ],
      recentRequests |-> <<>> ]

\* resetMetrics: the object assigned to this.metrics
resetMetrics ==
    [ requests |-> [ total |-> 0, success |-> 0, errors |-> 0, perMinute |-> 0, peakRPM |-> 0 ],
      performance |-> [ responseTimes |-> <<>>, averageResponseTime |-> 0,
                        minResponseTime |-> Infinity, maxResponseTime |-> 0 ],
      recentRequests |-> <<>> ]

getHealthSummary_idleIsZero(m) ==
    LET totalRequests == m.requests.total
        successRate == IF totalRequests > 0
                       THEN MathRound(m.requests.success * 100, totalRequests)
                       ELSE 0
    IN [ healthy |-> successRate >= HealthySuccessRate
                     /\ m.performance.averageResponseTime < HealthyResponseTime,
         successRate |-> successRate,
         averageResponseTime |-> m.performance.averageResponseTime,
         totalRequests |-> totalRequests,
         errors |-> m.requests.errors ]

getHealthSummary_above95(m) ==
    LET totalRequests == m.requests.total
        successRate == IF totalRequests > 0
                       THEN MathRound(m.requests.success * 100, totalRequests)
                       ELSE 100
    IN [ healthy |-> successRate > HealthySuccessRate
                     /\ m.performance.averageResponseTime < HealthyResponseTime,
         successRate |-> successRate,
         averageResponseTime |-> m.performance.averageResponseTime,
         totalRequests |-> totalRequests,
         errors |-> m.requests.errors ]

\* getHealthSummary as a function of this.metrics
getHealthSummary(m) ==
    LET totalRequests == m.requests.total
        successRate == IF totalRequests > 0
                       THEN MathRound(m.requests.success * 100, totalRequests)
                       ELSE 100
    IN [ healthy |-> successRate >= HealthySuccessRate
                     /\ m.performance.averageResponseTime < HealthyResponseTime,
         successRate |-> successRate,
         averageResponseTime |-> m.performance.averageResponseTime,
         totalRequests |-> totalRequests,
         errors |-> m.requests.errors ]

getMetricsForPeriod_tenthOfWindow(m, t, minutes) ==
    LET periodRequests ==
            SelectSeq(m.recentRequests, LAMBDA req : DateParse(req.timestamp) >= t - (minutes * 6000))
        periodSuccess ==
            Len(SelectSeq(periodRequests, LAMBDA req : req.statusCode >= 200 /\ req.statusCode < 400))
        periodErrors == Len(SelectSeq(periodRequests, LAMBDA req : req.statusCode >= 400))
    IN [ period |-> <<minutes, " minutes">>,
         requests |-> Len(periodRequests),
         success |-> periodSuccess,
         errors |-> periodErrors,
         successRate |-> IF Len(periodRequests) > 0
                         THEN MathRound(periodSuccess * 100, Len(periodRequests))
                         ELSE 100,
         timestamp |-> toISOString(t) ]

\* getMetricsForPeriod(minutes) as a function of this.metrics and the instant;
\* the template string `${minutes} minutes` is kept as its two parts
getMetricsForPeriod(m, t, minutes) ==
    LET periodRequests ==
            SelectSeq(m.recentRequests, LAMBDA req : DateParse(req.timestamp) >= t - (minutes * 60000))
        periodSuccess ==
            Len(SelectSeq(periodRequests, LAMBDA req : req.statusCode >= 200 /\ req.statusCode < 400))
        periodErrors == Len(SelectSeq(periodRequests, LAMBDA req : req.statusCode >= 400))
    IN [ period |-> <<minutes, " minutes">>,
         requests |-> Len(periodRequests),
         success |-> periodSuccess,
         errors |-> periodErrors,
         successRate |-> IF Len(periodRequests) > 0
                         THEN MathRound(periodSuccess * 100, Len(periodRequests))
                         ELSE 100,
         timestamp |-> toISOString(t) ]

(***************************************************************************)
(* The object getMetrics returns.  { ...this.metrics, timestamp } is a new *)
(* object whose requests, performance and recentRequests properties hold   *)
(* the same objects this.metrics holds.  A property of the returned object *)
(* is modelled as a reference: live while it is the object the store       *)
(* still uses, detached (with the object's own contents) once the store    *)
(* has replaced that object by a new one.                                  *)
(***************************************************************************)
LiveRef == [ live |-> TRUE, val |-> <<>> ]
Detached(object) == [ live |-> FALSE, val |-> <<object>> ]
Deref(ref, liveObject) == IF ref.live THEN liveObject ELSE ref.val[1]

\* getMetrics at instant t
getMetrics(t) ==
    [ requests |-> LiveRef, performance |-> LiveRef, recentRequests |-> LiveRef,
      timestamp |-> toISOString(t) ]

\* what a caller reads through a returned object snap
View(snap, m) ==
    [ requests |-> Deref(snap.requests, m.requests),
      performance |-> Deref(snap.performance, m.performance),
      recentRequests |-> Deref(snap.recentRequests, m.recentRequests),
      timestamp |-> snap.timestamp ]

\* recordRequest, seen from a held object: unshift and push change the
\* arrays in place; this.metrics.recentRequests = ...slice(0, 50) leaves the
\* held object with the array that was unshifted into
heldAfterRecord(held, m, requestData, recentCap) ==
    IF held = <<>> THEN held
    ELSE LET unshifted == unshiftRecent(m.recentRequests, requestData)
         IN IF held[1].recentRequests.live /\ Len(unshifted) > recentCap
            THEN << [ held[1] EXCEPT !.recentRequests = Detached(unshifted) ] >>
            ELSE held

\* resetMetrics, seen from a held object: this.metrics is a new object, the
\* held one keeps the objects of the old one
heldAfterReset(held, m) ==
    IF held = <<>> THEN held
    ELSE << [ requests |-> IF held[1].requests.live THEN Detached(m.requests) ELSE held[1].requests,
              performance |-> IF held[1].performance.live THEN Detached(m.performance) ELSE held[1].performance,
              recentRequests |-> IF held[1].recentRequests.live THEN Detached(m.recentRequests) ELSE held[1].recentRequests,
              timestamp |-> held[1].timestamp ] >>

(***************************************************************************)
(* The request data the metrics middleware hands to recordRequest.         *)
(***************************************************************************)
RequestData(method, path, statusCode, responseTime, ip, userAgent) ==
    [ method |-> method, path |-> path, statusCode |-> statusCode,
      responseTime |-> responseTime, timestamp |-> toISOString(now),
      ip |-> ip, userAgent |-> userAgent ]

(***************************************************************************)
(* Actions of the aggregator.                                              *)
(***************************************************************************)
\* routes/api.js:11-12, the collections of a freshly loaded module, before
\* any request has been answered
InitApi ==
    /\ users = <<>>
    /\ applicationData = <<>>
    /\ response = <<>>
    /\ uuids = 0

\* app.js:32 and 58: the environment the remaining specifications run
\* in is the test environment, where no limiter is installed
TestEnv == [ NODE_ENV |-> <<"string", "test">>, DISABLE_RATE_LIMIT |-> <<"undefined">> ]

\* the application before its first request
InitApp ==
    /\ hits = 0
    /\ served = 0

\* metricsStore.js:21: in the test environment the constructor leaves
\* this.intervalId undefined and starts no interval
NoTimer == [ intervalId |-> <<"undefined">>, active |-> FALSE, due |-> 0, cleanups |-> 0 ]

\* app.js:162-175: the process is started and no signal has been delivered
Running == [ state |-> "running", signals |-> 0 ]

\* monitoring.js:3-6, the monitor as constructed: this.isRunning and
\* this.monitoringInterval; the interval handles the page holds; the
\* startMonitoring calls suspended at their await; the restarts scheduled
\* by setTimeout; ghost: the number of handles setInterval has returned
NewMonitor ==
    [ isRunning |-> FALSE, monitoringInterval |-> 0, intervals |-> {},
      awaiting |-> 0, timeouts |-> 0, handles |-> 0 ]

\* the process and the page before any signal and any click
InitHost ==
    /\ proc = Running
    /\ monitor = NewMonitor

\* no callback is on the stack
Idle == [ pc |-> 0, requestData |-> <<>>, entry |-> <<>> ]

\* the state after module load of everything outside the aggregate
InitOthers ==
    /\ InitApi
    /\ InitApp
    /\ env = TestEnv
    /\ loop = Idle
    /\ timer = NoTimer
    /\ InitHost

Init ==
    /\ metrics = NewMetrics
    /\ now = 0
    /\ snapshot = <<>>
    /\ health = <<>>
    /\ history = <<>>
    /\ nCalls = 0
    /\ lastOp = "constructor"
    /\ recordedAt = <<>>
    /\ period = <<>>
    /\ InitOthers

\* metricsStore.recordRequest(requestData), with the scaled capacities
RecordRequest(requestData) ==
    /\ nCalls < MaxCalls
    /\ metrics' = recordRequest(metrics, requestData, TimesCap, RecentCap)
    /\ snapshot' = heldAfterRecord(snapshot, metrics, requestData, RecentCap)
    /\ history' = Append(history, requestData)
    /\ recordedAt' = Append(recordedAt, now)
    /\ nCalls' = nCalls + 1
    /\ lastOp' = "recordRequest"
    /\ UNCHANGED <<now, health>>
    /\ UNCHANGED others

\* metricsStore.calculateRequestsPerMinute(), by the timer or a direct call
CalculateRequestsPerMinute ==
    /\ metrics' = calculateRequestsPerMinute(metrics, now)
    /\ lastOp' = "calculateRequestsPerMinute"
    /\ UNCHANGED <<now, snapshot, health, history, nCalls, recordedAt>>
    /\ UNCHANGED others

\* metricsStore.resetMetrics()
ResetMetrics ==
    /\ metrics' = resetMetrics
    /\ snapshot' = heldAfterReset(snapshot, metrics)
    /\ history' = <<>>
    /\ recordedAt' = <<>>
    /\ lastOp' = "resetMetrics"
    /\ UNCHANGED <<now, health, nCalls>>
    /\ UNCHANGED others

\* the wall clock advances
Tick ==
    /\ now < MaxTicks * TickMs
    /\ now' = now + TickMs
    /\ lastOp' = "tick"
    /\ UNCHANGED <<metrics, snapshot, health, history, nCalls, recordedAt>>
    /\ UNCHANGED others

SomeRecordRequest ==
    \E method \in Methods, path \in Paths, input \in RequestInputs,
       ip \in Ips, userAgent \in UserAgents :
        RecordRequest(RequestData(method, path, input[1], input[2], ip, userAgent))

Next ==
    \/ SomeRecordRequest
    \/ CalculateRequestsPerMinute
    \/ ResetMetrics
    \/ Tick

Spec == Init /\ [][Next]_vars

(***************************************************************************)
(* A caller of getMetrics that keeps the returned object and writes to it. *)
(***************************************************************************)
\* metricsStore.getMetrics(); the caller keeps the returned object
GetMetrics ==
    /\ snapshot' = << getMetrics(now) >>
    /\ lastOp' = "getMetrics"
    /\ UNCHANGED <<metrics, now, health, history, nCalls, recordedAt>>
    /\ UNCHANGED others

\* the caller executes  held.requests.total = 0
CallerSetsTotal ==
    /\ snapshot /= <<>>
    /\ IF snapshot[1].requests.live
       THEN /\ metrics' = [ metrics EXCEPT !.requests.total = 0 ]
            /\ UNCHANGED snapshot
       ELSE /\ snapshot' = << [ snapshot[1] EXCEPT !.requests.val[1].total = 0 ] >>
            /\ UNCHANGED metrics
    /\ lastOp' = "callerWrite"
    /\ UNCHANGED <<now, health, history, nCalls, recordedAt>>
    /\ UNCHANGED others

\* the caller executes  held.performance.responseTimes.length = 0
CallerClearsResponseTimes ==
    /\ snapshot /= <<>>
    /\ IF snapshot[1].performance.live
       THEN /\ metrics' = [ metrics EXCEPT !.performance.responseTimes = <<>> ]
            /\ UNCHANGED snapshot
       ELSE /\ snapshot' = << [ snapshot[1] EXCEPT !.performance.val[1].responseTimes = <<>> ] >>
            /\ UNCHANGED metrics
    /\ lastOp' = "callerWrite"
    /\ UNCHANGED <<now, health, history, nCalls, recordedAt>>
    /\ UNCHANGED others

\* the caller executes  held.recentRequests.length = 0
CallerClearsRecentRequests ==
    /\ snapshot /= <<>>
    /\ IF snapshot[1].recentRequests.live
       THEN /\ metrics' = [ metrics EXCEPT !.recentRequests = <<>> ]
            /\ UNCHANGED snapshot
       ELSE /\ snapshot' = << [ snapshot[1] EXCEPT !.recentRequests = Detached(<<>>) ] >>
            /\ UNCHANGED metrics
    /\ lastOp' = "callerWrite"
    /\ UNCHANGED <<now, health, history, nCalls, recordedAt>>
    /\ UNCHANGED others

\* the caller executes  held.recentRequests = []  (a property of the
\* returned object itself)
CallerReplacesRecentRequests ==
    /\ snapshot /= <<>>
    /\ snapshot' = << [ snapshot[1] EXCEPT !.recentRequests = Detached(<<>>) ] >>
    /\ lastOp' = "callerWrite"
    /\ UNCHANGED <<metrics, now, health, history, nCalls, recordedAt>>
    /\ UNCHANGED others

SnapshotRecordRequest ==
    \E method \in Methods, path \in Paths, input \in SnapshotInputs,
       ip \in Ips, userAgent \in UserAgents :
        RecordRequest(RequestData(method, path, input[1], input[2], ip, userAgent))

NextSnapshot ==
    \/ SnapshotRecordRequest
    \/ CalculateRequestsPerMinute
    \/ ResetMetrics
    \/ GetMetrics
    \/ CallerSetsTotal
    \/ CallerClearsResponseTimes
    \/ CallerClearsRecentRequests
    \/ CallerReplacesRecentRequests

SpecSnapshot == Init /\ [][NextSnapshot]_vars

(***************************************************************************)
(* getMetricsForPeriod, called between recorded requests and clock steps.  *)
(***************************************************************************)
\* metricsStore.getMetricsForPeriod(minutes); the caller keeps the result
GetMetricsForPeriod(minutes) ==
    /\ period' = << getMetricsForPeriod(metrics, now, minutes) >>
    /\ lastOp' = "getMetricsForPeriod"
    /\ UNCHANGED <<metrics, now, snapshot, health, history, nCalls, recordedAt>>
    /\ UNCHANGED <<apiVars, appVars, loop, timer, hostVars>>

PeriodRecordRequest ==
    \E method \in Methods, path \in Paths, input \in PeriodInputs,
       ip \in Ips, userAgent \in UserAgents :
        RecordRequest(RequestData(method, path, input[1], input[2], ip, userAgent))

SomeGetMetricsForPeriod == \E minutes \in PeriodMinutes : GetMetricsForPeriod(minutes)

NextPeriod ==
    \/ PeriodRecordRequest
    \/ ResetMetrics
    \/ Tick
    \/ SomeGetMetricsForPeriod

SpecPeriod == Init /\ [][NextPeriod]_vars

(***************************************************************************)
(* getHealthSummary, applied to aggregates of up to MaxTotal requests.     *)
(***************************************************************************)
\* the aggregate a freshly constructed store holds after the calls of h,
\* with the given capacities
RECURSIVE ReplayWith(_, _, _)
ReplayWith(h, timesCap, recentCap) ==
    IF h = <<>> THEN NewMetrics
    ELSE recordRequest(ReplayWith(SubSeq(h, 1, Len(h) - 1), timesCap, recentCap),
                       h[Len(h)], timesCap, recentCap)

\* total requests of response time responseTime at instant 0, the first
\* success of them answered 200 and the others 500
Traffic(total, success, responseTime) ==
    [ i \in 1..total |->
        [ method |-> "GET", path |-> "/api/users",
          statusCode |-> IF i <= success THEN 200 ELSE 500,
          responseTime |-> responseTime, timestamp |-> toISOString(0),
          ip |-> CHOOSE ip \in Ips : TRUE, userAgent |-> "curl" ] ]

\* the store after some traffic, with the program's capacities
InitHealth ==
    \E total \in 0..MaxTotal :
      \E success \in 0..total :
        \E responseTime \in HealthResponseTimes :
            /\ history = Traffic(total, success, responseTime)
            /\ recordedAt = [ i \in 1..total |-> 0 ]
            /\ metrics = ReplayWith(history, MaxResponseTimes, MaxRecentRequests)
            /\ nCalls = total
            /\ now = 0
            /\ snapshot = <<>>
            /\ health = <<>>
            /\ period = <<>>
            /\ InitOthers
            /\ lastOp = IF total = 0 THEN "constructor" ELSE "recordRequest"

\* metricsStore.getHealthSummary(); the caller keeps the returned object
GetHealthSummary ==
    /\ health' = << getHealthSummary(metrics) >>
    /\ lastOp' = "getHealthSummary"
    /\ UNCHANGED <<metrics, now, snapshot, history, nCalls, recordedAt>>
    /\ UNCHANGED others

NextHealth == GetHealthSummary

SpecHealth == InitHealth /\ [][NextHealth]_vars

\* the same, with the administrative reset between the summaries
NextHealthReset ==
    \/ GetHealthSummary
    \/ ResetMetrics

SpecHealthReset == InitHealth /\ [][NextHealthReset]_vars

(***************************************************************************)
(* Definitions the properties are stated with.                             *)
(***************************************************************************)
Range(s) == { s[i] : i \in 1..Len(s) }
SeqMin(s) == CHOOSE x \in Range(s) : \A y \in Range(s) : x <= y
SeqMax(s) == CHOOSE x \in Range(s) : \A y \in Range(s) : x >= y

\* the response times handed to recordRequest since construction or the last reset
Recorded == [ i \in 1..Len(history) |-> history[i].responseTime ]

\* the aggregate a freshly constructed store reaches on the calls of h
Replay(h) == ReplayWith(h, TimesCap, RecentCap)

\* the aggregate without the two rate fields, which recordRequest never writes
WithoutRates(m) == [ m EXCEPT !.requests.perMinute = 0, !.requests.peakRPM = 0 ]

Times == metrics.performance.responseTimes
WasReset == nCalls > Len(history)

(***************************************************************************)
(* Properties.                                                             *)
(***************************************************************************)
\* C1: in every state reached by recordRequest, calculateRequestsPerMinute and
\* resetMetrics calls from a fresh store, requests.total equals
\* requests.success + requests.errors.
C1_TotalIsSuccessPlusErrors ==
    metrics.requests.total = metrics.requests.success + metrics.requests.errors

\* C1 witness: after a reset, a success and an error have been recorded
C1_Witness ==
    /\ WasReset
    /\ lastOp = "recordRequest"
    /\ metrics.requests.success >= 1
    /\ metrics.requests.errors >= 1

\* C2: every recordRequest adds exactly 1 to success and nothing to errors
\* when 200 <= statusCode <= 399, and exactly 1 to errors and nothing to
\* success otherwise.
C2_Classification ==
    [][ nCalls' = nCalls + 1 =>
          LET statusCode == history'[Len(history')].statusCode
          IN IF statusCode >= 200 /\ statusCode <= 399
             THEN /\ metrics'.requests.success = metrics.requests.success + 1
                  /\ metrics'.requests.errors = metrics.requests.errors
             ELSE /\ metrics'.requests.errors = metrics.requests.errors + 1
                  /\ metrics'.requests.success = metrics.requests.success ]_vars

\* C2 witness: 199, 399 and 400 were recorded and counted as two errors and
\* one success
C2_Witness ==
    /\ Len(history) = 3
    /\ { history[i].statusCode : i \in 1..3 } = {199, 399, 400}
    /\ metrics.requests.success = 1
    /\ metrics.requests.errors = 2

\* C3 as claimed: min and max are the minimum and maximum of the samples
\* currently in responseTimes.
C3_MinMaxOfBuffer ==
    Times /= <<>> =>
        /\ metrics.performance.minResponseTime = SeqMin(Times)
        /\ metrics.performance.maxResponseTime = SeqMax(Times)

\* C3 amended: min and max are the minimum and maximum of all response times
\* recorded since construction or the last reset, evicted ones included; they
\* are those of the buffer as long as nothing has been evicted.
C3_MinMaxSinceReset ==
    history /= <<>> =>
        /\ metrics.performance.minResponseTime = SeqMin(Recorded)
        /\ metrics.performance.maxResponseTime = SeqMax(Recorded)
        /\ Len(history) <= TimesCap => C3_MinMaxOfBuffer

\* C3 witness: the minimum has been evicted from the buffer
C3_Witness ==
    /\ Len(history) > TimesCap
    /\ metrics.performance.minResponseTime < SeqMin(Times)

\* C4 as claimed: the average is exactly sum(samples) / count(samples).
C4_AverageExact ==
    Times /= <<>> =>
        metrics.performance.averageResponseTime * Len(Times) = SumSeq(Times)

\* C4 amended: the average is sum(samples) / count(samples) over the samples
\* in the buffer, rounded to the nearest integer with halves rounded up.
C4_AverageRounded ==
    Times /= <<>> =>
        LET avg == metrics.performance.averageResponseTime
            n == Len(Times)
        IN /\ 2 * n * avg <= 2 * SumSeq(Times) + n
           /\ 2 * SumSeq(Times) + n < 2 * n * (avg + 1)

\* C4 witness: after an eviction the buffer's sum is not a multiple of its length
C4_Witness ==
    /\ Len(history) > TimesCap
    /\ SumSeq(Times) % Len(Times) /= 0

\* C5 as claimed: getHealthSummary answers healthy exactly when success/total
\* is at least 95% (taken as 100% when total is 0) and the average response
\* time is below 1000 ms.
C5_HealthyIffRateAtLeast95 ==
    health /= <<>> =>
        ( health[1].healthy <=>
            /\ \/ metrics.requests.total = 0
               \/ 100 * metrics.requests.success >= 95 * metrics.requests.total
            /\ metrics.performance.averageResponseTime < 1000 )

\* C5 amended: getHealthSummary answers healthy exactly when success/total
\* rounded to the nearest whole percent (halves up; 100 when total is 0) is at
\* least 95, that is when success/total >= 94.5%, and averageResponseTime is
\* below 1000 ms.
C5_HealthyIffRoundedRateAtLeast95 ==
    health /= <<>> =>
        ( health[1].healthy <=>
            /\ \/ metrics.requests.total = 0
               \/ 200 * metrics.requests.success >= 189 * metrics.requests.total
            /\ metrics.performance.averageResponseTime < 1000 )

\* C5 witness: an aggregate with success/total below 95% was answered healthy
C5_Witness ==
    /\ health /= <<>>
    /\ health[1].healthy
    /\ metrics.requests.total > 0
    /\ 100 * metrics.requests.success < 95 * metrics.requests.total

\* C6: responseTimes never holds more than its capacity, and it holds the
\* last min(k, capacity) of the k recorded response times in insertion order.
C6_ResponseTimesFifo ==
    LET k == Len(history)
        n == Len(Times)
    IN /\ n <= TimesCap
       /\ n = Min(k, TimesCap)
       /\ \A i \in 1..n : Times[i] = Recorded[k - n + i]

\* C6 witness: a sample was evicted that differs from the one that followed it
C6_Witness ==
    /\ Len(history) > TimesCap
    /\ Recorded[1] /= Recorded[2]

\* C7: recentRequests never holds more than its capacity, and after k calls
\* since the last reset it holds the min(k, capacity) latest calls, latest first.
C7_RecentRequestsLatestFirst ==
    LET k == Len(history)
        n == Len(metrics.recentRequests)
    IN /\ n <= RecentCap
       /\ n = Min(k, RecentCap)
       /\ \A i \in 1..n :
            LET stored == metrics.recentRequests[i]
                given == history[k - i + 1]
            IN /\ stored.method = given.method
               /\ stored.path = given.path
               /\ stored.statusCode = given.statusCode
               /\ stored.responseTime = given.responseTime
               /\ stored.timestamp = given.timestamp

\* C7 witness: a record was evicted and the two kept records differ
C7_Witness ==
    /\ Len(history) > RecentCap
    /\ metrics.recentRequests[1] /= metrics.recentRequests[2]

\* C8: no write a caller makes to the object getMetrics returned, or to
\* anything reachable from it, changes this.metrics.
C8_CallerWritesLeaveStoreUnchanged ==
    [][ lastOp' = "callerWrite" => metrics' = metrics ]_vars

\* C9: what is read through an object getMetrics returned does not change
\* when recordRequest or calculateRequestsPerMinute is called afterwards.
C9_ReturnedObjectIsPointInTime ==
    [][ ( /\ snapshot /= <<>>
          /\ lastOp' \in {"recordRequest", "calculateRequestsPerMinute"} )
        => View(snapshot'[1], metrics') = View(snapshot[1], metrics) ]_vars

\* C10: right after resetMetrics every counter, the two rates and the average
\* are 0, both buffers are empty, min is Infinity and max is 0; and the
\* calls recorded since then leave the aggregate a fresh store reaches on them.
C10_ResetIsFresh ==
    /\ lastOp = "resetMetrics" =>
          /\ metrics.requests.total = 0
          /\ metrics.requests.success = 0
          /\ metrics.requests.errors = 0
          /\ metrics.requests.perMinute = 0
          /\ metrics.requests.peakRPM = 0
          /\ metrics.performance.averageResponseTime = 0
          /\ metrics.performance.responseTimes = <<>>
          /\ metrics.performance.minResponseTime = Infinity
          /\ metrics.performance.maxResponseTime = 0
          /\ metrics.recentRequests = <<>>
    /\ WithoutRates(metrics) = WithoutRates(Replay(history))

\* C10 witness: calls were recorded, the store was reset, and a call was
\* recorded after the reset
C10_Witness ==
    /\ WasReset
    /\ lastOp = "recordRequest"
    /\ history /= <<>>

\* the calls of history made within windowMs before the current instant
CallsWithin(windowMs) == { j \in 1..Len(history) : recordedAt[j] >= now - windowMs }

\* the entries of recentRequests (entry i is call Len(history) - i + 1) made
\* within windowMs before the current instant
EntriesWithin(windowMs) ==
    { i \in 1..Len(metrics.recentRequests) : recordedAt[Len(history) - i + 1] >= now - windowMs }

\* C11: calculateRequestsPerMinute leaves in requests.perMinute the number of
\* recentRequests entries recorded within the 60 seconds before the call; when
\* no more records than the buffer's capacity were made in those 60 seconds,
\* that is the number of all records made in them.
C11_RateIsWindowCount ==
    lastOp = "calculateRequestsPerMinute" =>
        /\ metrics.requests.perMinute = Cardinality(EntriesWithin(60000))
        /\ Cardinality(CallsWithin(60000)) <= RecentCap =>
              metrics.requests.perMinute = Cardinality(CallsWithin(60000))

\* C11 witness: a rate was computed that counts a record and leaves out an
\* older one still in the buffer
C11_Witness ==
    /\ lastOp = "calculateRequestsPerMinute"
    /\ metrics.requests.perMinute >= 1
    /\ metrics.requests.perMinute < Len(metrics.recentRequests)

\* C12: in every state peakRPM >= perMinute.
C12_PeakAtLeastCurrent ==
    metrics.requests.peakRPM >= metrics.requests.perMinute

\* C12 witness: the current rate is positive and below the peak
C12_Witness ==
    /\ metrics.requests.perMinute >= 1
    /\ metrics.requests.peakRPM > metrics.requests.perMinute

\* C13: no step other than resetMetrics lowers peakRPM.
C13_PeakNeverDecreases ==
    [][ lastOp' /= "resetMetrics" =>
          metrics'.requests.peakRPM >= metrics.requests.peakRPM ]_vars

\* C13 witness: a rate computed over an empty window left a positive peak
C13_Witness ==
    /\ lastOp = "calculateRequestsPerMinute"
    /\ metrics.requests.perMinute = 0
    /\ metrics.requests.peakRPM >= 1

\* C14: a getHealthSummary call made while requests.total is 0, on a fresh
\* store or after a reset, answers healthy with successRate 100.
C14_IdleIsHealthy ==
    ( lastOp = "getHealthSummary" /\ metrics.requests.total = 0 ) =>
        /\ health[1].healthy = TRUE
        /\ health[1].successRate = 100

\* C14 witness: the summary was taken after a reset that followed traffic
C14_Witness ==
    /\ lastOp = "getHealthSummary"
    /\ metrics.requests.total = 0
    /\ WasReset

\* C15: getMetricsForPeriod(minutes) reports as requests the number of
\* recentRequests entries recorded within minutes * 60 seconds before the
\* call, and for minutes = 1 the value calculateRequestsPerMinute would assign
\* to perMinute at the same instant.
C15_PeriodIsWindowCount ==
    lastOp = "getMetricsForPeriod" =>
        LET minutes == period[1].period[1]
        IN /\ period[1].requests = Cardinality(EntriesWithin(minutes * 60 * 1000))
           /\ minutes = 1 =>
                period[1].requests = calculateRequestsPerMinute(metrics, now).requests.perMinute

\* C15 witness: a one-minute period counted a record and left out an older
\* one still in the buffer
C15_Witness ==
    /\ lastOp = "getMetricsForPeriod"
    /\ period[1].period[1] = 1
    /\ period[1].requests >= 1
    /\ period[1].requests < Len(metrics.recentRequests)

(***************************************************************************)
(* The business routes (src/src/routes/api.js): the users and the data     *)
(* collections and the handlers that create and delete their elements.     *)
(***************************************************************************)
\* identifiers handed out in one behaviour
MaxUuids == 3

\* JavaScript values of a request body: a missing key reads as undefined
Undefined == <<"undefined">>
Str(s) == <<"string", s>>
\* the values !v is true of
Falsy(v) == v = Undefined \/ v = Str("")
\* a || b
Or(a, b) == IF Falsy(a) THEN b ELSE a

\* the destructured fields of the body of a POST /api/users
UserBodies ==
    [ name : {Undefined, Str(""), Str("Ana")},
      email : {Undefined, Str(""), Str("ana@example.com")},
      role : {Undefined, Str("admin")} ]
\* the destructured fields of the body of a POST /api/data
DataBodies ==
    [ content : {Undefined, Str(""), Str("text")},
      type : {Undefined, Str("test")},
      metadata : {Undefined} ]

\* uuidv4(): an identifier no earlier call returned
uuidv4(n) == <<"uuid", n + 1>>

\* res.status(status).json(body), with the request it answers
Exchange(method, path, reqBody, status, resBody) ==
    [ request |-> [ method |-> method, path |-> path, body |-> reqBody ],
      status |-> status,
      body |-> resBody ]

\* router.post('/users') where both required fields must be missing to reject
postUsers_bothMissing(us, body, t, n) ==
    IF Falsy(body.name) /\ Falsy(body.email)
    THEN [ users |-> us, uuids |-> n, status |-> 400,
           body |-> [ error |-> "Name and email are required",
                      timestamp |-> toISOString(t) ] ]
    ELSE LET newUser == [ id |-> uuidv4(n),
                          name |-> body.name,
                          email |-> body.email,
                          role |-> Or(body.role, Str("user")),
                          created_at |-> toISOString(t),
                          last_active |-> toISOString(t) ]
         IN [ users |-> Append(us, newUser), uuids |-> n + 1, status |-> 201,
              body |-> newUser ]

\* router.post('/users'): the collection, the identifiers used, the status
\* and the body sent for a request body, at clock reading t
postUsers(us, body, t, n) ==
    IF Falsy(body.name) \/ Falsy(body.email)
    THEN [ users |-> us, uuids |-> n, status |-> 400,
           body |-> [ error |-> "Name and email are required",
                      timestamp |-> toISOString(t) ] ]
    ELSE LET newUser == [ id |-> uuidv4(n),
                          name |-> body.name,
                          email |-> body.email,
                          role |-> Or(body.role, Str("user")),
                          created_at |-> toISOString(t),
                          last_active |-> toISOString(t) ]
         IN [ users |-> Append(us, newUser), uuids |-> n + 1, status |-> 201,
              body |-> newUser ]

\* router.post('/data')
postData(data, body, t, n) ==
    IF Falsy(body.content)
    THEN [ applicationData |-> data, uuids |-> n, status |-> 400,
           body |-> [ error |-> "Content is required",
                      timestamp |-> toISOString(t) ] ]
    ELSE LET newData == [ id |-> uuidv4(n),
                          content |-> body.content,
                          type |-> Or(body.type, Str("general")),
                          metadata |-> Or(body.metadata, <<"object">>),
                          created_at |-> toISOString(t),
                          updated_at |-> toISOString(t) ]
         IN [ applicationData |-> Append(data, newData), uuids |-> n + 1,
              status |-> 201, body |-> newData ]

\* applicationData.findIndex(d => d.id === id), 0 standing for -1
findIndex(data, id) ==
    IF \E i \in 1..Len(data) : data[i].id = id
    THEN CHOOSE i \in 1..Len(data) :
            /\ data[i].id = id
            /\ \A j \in 1..(i - 1) : data[j].id # id
    ELSE 0

\* applicationData.splice(dataIndex, 1): the array without that element
splice(data, dataIndex) ==
    [ i \in 1..(Len(data) - 1) |-> IF i < dataIndex THEN data[i] ELSE data[i + 1] ]

\* router.delete('/data/:id')
deleteData(data, id, t) ==
    LET dataIndex == findIndex(data, id)
    IN IF dataIndex = 0
       THEN [ applicationData |-> data, status |-> 404,
              body |-> [ error |-> "Data not found", timestamp |-> toISOString(t) ] ]
       ELSE [ applicationData |-> splice(data, dataIndex), status |-> 200,
              body |-> [ message |-> "Data deleted successfully",
                         deleted_item |-> data[dataIndex],
                         timestamp |-> toISOString(t) ] ]

\* POST /api/users with a JSON body
PostUsers(body) ==
    /\ uuids < MaxUuids
    /\ LET r == postUsers(users, body, now, uuids)
       IN /\ users' = r.users
          /\ uuids' = r.uuids
          /\ response' = << Exchange("POST", "/api/users", body, r.status, r.body) >>
    /\ lastOp' = "postUsers"
    /\ UNCHANGED <<applicationData, metrics, now, snapshot, health, history, nCalls,
                   recordedAt, period, appVars, loop, timer, hostVars>>

\* POST /api/data with a JSON body
PostData(body) ==
    /\ uuids < MaxUuids
    /\ LET r == postData(applicationData, body, now, uuids)
       IN /\ applicationData' = r.applicationData
          /\ uuids' = r.uuids
          /\ response' = << Exchange("POST", "/api/data", body, r.status, r.body) >>
    /\ lastOp' = "postData"
    /\ UNCHANGED <<users, metrics, now, snapshot, health, history, nCalls,
                   recordedAt, period, appVars, loop, timer, hostVars>>

\* DELETE /api/data/:id
DeleteData(id) ==
    /\ LET r == deleteData(applicationData, id, now)
       IN /\ applicationData' = r.applicationData
          /\ response' = << Exchange("DELETE", "/api/data/:id", id, r.status, r.body) >>
    /\ lastOp' = "deleteData"
    /\ UNCHANGED <<users, uuids, metrics, now, snapshot, health, history, nCalls,
                   recordedAt, period, appVars, loop, timer, hostVars>>

SomePostUsers == \E body \in UserBodies : PostUsers(body)

SomePostData == \E body \in DataBodies : PostData(body)

SomeDeleteData == \E n \in 0..(MaxUuids - 1) : DeleteData(uuidv4(n))

NextApi ==
    \/ SomePostUsers
    \/ SomePostData
    \/ SomeDeleteData

SpecApi == Init /\ [][NextApi]_vars

\* the last request was a POST /api/users without name or without email, or
\* a POST /api/data without content
RejectedPost(op, exchange) ==
    \/ /\ op = "postUsers"
       /\ exchange[1].request.body.name = Undefined
            \/ exchange[1].request.body.email = Undefined
    \/ /\ op = "postData"
       /\ exchange[1].request.body.content = Undefined

\* C16: a POST /api/users without name or without email, and a POST
\* /api/data without content, is answered with status 400 and a body that
\* has an error property, and neither the users nor the data collection
\* changes in that step.
C16_RejectedPostChangesNothing ==
    [][ RejectedPost(lastOp', response') =>
            /\ response'[1].status = 400
            /\ "error" \in DOMAIN response'[1].body
            /\ users' = users
            /\ applicationData' = applicationData ]_vars

\* a user creation with a name and no email was rejected while both
\* collections held an element
C16_Witness ==
    /\ lastOp = "postUsers"
    /\ response[1].request.body.name = Str("Ana")
    /\ response[1].request.body.email = Undefined
    /\ response[1].status = 400
    /\ Len(users) = 1
    /\ Len(applicationData) = 1

(***************************************************************************)
(* The application (app.js): the middleware in registration order, the     *)
(* mounted routers, the 404 handler and the error handler, and one inbound *)
(* request carried from the limiter to the end of its response.            *)
(***************************************************************************)
\* inbound requests answered in one behaviour
MaxRequests == 3
\* the limiter's max used by the exploring specification in place of the
\* configured 100, so that a rejection happens within MaxRequests requests
RateMax == 1
\* config/index.js:27-28, the limiter's window in ms and its max
RateLimitWindowMs == 15 * 60 * 1000
RateLimitMax == 100
\* the ms between metricsCollector's startTime and the end of the response
HandlerMs == {0, 2}

\* process.env of a deployment and of a test run, with and without
\* DISABLE_RATE_LIMIT
Envs ==
    [ NODE_ENV : {Str("production"), Str("test")},
      DISABLE_RATE_LIMIT : {Undefined, Str("true")} ]

\* app.js:58, whether app.use('/api/', limiter) was executed
rateLimitInstalled(e) ==
    /\ Or(e.NODE_ENV, Str("development")) # Str("test")
    /\ Falsy(e.DISABLE_RATE_LIMIT)

\* a request body on the wire: absent, JSON that does not parse, or JSON
NoBody == <<"none">>
Malformed == <<"malformed">>
Json(object) == <<"json", object>>

\* a path is the sequence of its segments: /api/users is <<"api", "users">>
Route(method, path, handler) == [ method |-> method, path |-> path, handler |-> handler ]

\* routes/api.js, the routes in declaration order
apiRoutes ==
    << Route("GET", <<"status">>, "api.status"),
       Route("GET", <<"version">>, "api.version"),
       Route("GET", <<"metrics">>, "api.metrics"),
       Route("GET", <<"users">>, "api.getUsers"),
       Route("POST", <<"users">>, "api.postUsers"),
       Route("GET", <<"users", ":id">>, "api.getUser"),
       Route("GET", <<"data">>, "api.getData"),
       Route("POST", <<"data">>, "api.postData"),
       Route("GET", <<"data", ":id">>, "api.getDataItem"),
       Route("PUT", <<"data", ":id">>, "api.putData"),
       Route("DELETE", <<"data", ":id">>, "api.deleteData"),
       Route("GET", <<"logs">>, "api.logs"),
       Route("POST", <<"test", "seed">>, "api.seed") >>

\* routes/admin.js, the routes in declaration order
adminRoutes ==
    << Route("GET", <<>>, "admin.panel"),
       Route("GET", <<"api", "stats">>, "admin.stats"),
       Route("POST", <<"api", "cache", "clear">>, "admin.cacheClear"),
       Route("GET", <<"api", "system">>, "admin.system"),
       Route("POST", <<"api", "restart">>, "admin.restart"),
       Route("GET", <<"api", "health">>, "admin.health"),
       Route("GET", <<"api", "config">>, "admin.config"),
       Route("GET", <<"api", "logs">>, "admin.logs") >>

\* routes/health.js, the routes in declaration order
healthRoutes ==
    << Route("GET", <<>>, "health.check"),
       Route("GET", <<"detailed">>, "health.detailed"),
       Route("GET", <<"live">>, "health.live"),
       Route("GET", <<"ready">>, "health.ready") >>

\* a route path matches a request path segment by segment, a :param
\* segment matching any one segment
matches(pattern, path) ==
    /\ Len(pattern) = Len(path)
    /\ \A i \in 1..Len(pattern) : pattern[i] = ":id" \/ pattern[i] = path[i]

\* router.handle: the handler of the first route of the router that matches,
\* or "next" when none does and the request falls through
routerHandle(router, method, path) ==
    LET hit == { i \in 1..Len(router) :
                    router[i].method = method /\ matches(router[i].path, path) }
    IN IF hit = {} THEN "next"
       ELSE router[CHOOSE i \in hit : \A j \in hit : i <= j].handler

\* app.use(prefix, ...): the layer runs for paths that begin with the prefix
mounted(prefix, path) ==
    /\ Len(path) >= Len(prefix)
    /\ SubSeq(path, 1, Len(prefix)) = prefix
\* the path the mounted router sees, the prefix removed
strip(prefix, path) == SubSeq(path, Len(prefix) + 1, Len(path))

\* app.js:96-139: the layers after the static files, in registration
\* order; a router without a matching route passes the request on
appHandle(method, path) ==
    IF mounted(<<"health">>, path)
          /\ routerHandle(healthRoutes, method, strip(<<"health">>, path)) # "next"
    THEN routerHandle(healthRoutes, method, strip(<<"health">>, path))
    ELSE IF mounted(<<"api">>, path)
          /\ routerHandle(apiRoutes, method, strip(<<"api">>, path)) # "next"
    THEN routerHandle(apiRoutes, method, strip(<<"api">>, path))
    ELSE IF mounted(<<"admin">>, path)
          /\ routerHandle(adminRoutes, method, strip(<<"admin">>, path)) # "next"
    THEN routerHandle(adminRoutes, method, strip(<<"admin">>, path))
    ELSE IF method = "GET" /\ path = <<>> THEN "root"
    ELSE IF method = "GET" /\ path = <<"docs">> THEN "docs"
    ELSE "notFound"

\* req.path as the code running inside a layer reads it: the mount path of
\* the layer is removed from req.url while the layer runs
reqPath(method, path) ==
    LET handler == appHandle(method, path)
    IN IF handler \in {"root", "docs"} THEN path
       ELSE IF handler = "notFound" THEN <<>>
       ELSE IF mounted(<<"health">>, path)
                 /\ routerHandle(healthRoutes, method, strip(<<"health">>, path)) # "next"
       THEN strip(<<"health">>, path)
       ELSE IF mounted(<<"api">>, path)
                 /\ routerHandle(apiRoutes, method, strip(<<"api">>, path)) # "next"
       THEN strip(<<"api">>, path)
       ELSE strip(<<"admin">>, path)

\* the inbound requests: the admin endpoints at the documented paths and at
\* the paths the mounts give them, a user creation with a valid body, with
\* no body and with a body that is not JSON, and a path no layer serves
HttpRequests ==
    { [ method |-> "POST", path |-> <<"api", "admin", "cache", "clear">>, body |-> NoBody ],
      [ method |-> "GET", path |-> <<"api", "admin", "stats">>, body |-> NoBody ],
      [ method |-> "POST", path |-> <<"admin", "api", "cache", "clear">>, body |-> NoBody ],
      [ method |-> "GET", path |-> <<"admin", "api", "stats">>, body |-> NoBody ],
      [ method |-> "POST", path |-> <<"api", "users">>,
        body |-> Json([ name |-> Str("Ana"), email |-> Str("ana@example.com"),
                        role |-> Undefined ]) ],
      [ method |-> "POST", path |-> <<"api", "users">>, body |-> NoBody ],
      [ method |-> "POST", path |-> <<"api", "users">>, body |-> Malformed ],
      [ method |-> "GET", path |-> <<"nowhere">>, body |-> NoBody ] }

\* req.body after express.json(): the parsed object, {} without a body
parsedBody(body) ==
    IF body[1] = "json" THEN body[2]
    ELSE [ name |-> Undefined, email |-> Undefined, role |-> Undefined ]

\* JSON.stringify of a number: Infinity is written as null
jsonNumber(x) == IF x = Infinity THEN <<"null">> ELSE x

\* routes/admin.js, router.get('/api/stats'): the fields of the body read
\* from the aggregator
adminStats(m, t) ==
    [ performance |->
        [ requests |->
            [ total |-> m.requests.total,
              success |-> m.requests.success,
              errors |-> m.requests.errors,
              success_rate |-> IF m.requests.total > 0
                               THEN MathRound(m.requests.success * 100, m.requests.total)
                               ELSE 100 ],
          response_times |->
            [ average |-> m.performance.averageResponseTime,
              min |-> jsonNumber(m.performance.minResponseTime),
              max |-> m.performance.maxResponseTime ],
          traffic |->
            [ requests_per_minute |-> m.requests.perMinute,
              peak_rpm |-> m.requests.peakRPM ] ],
      recent_activity |-> m.recentRequests,
      timestamp |-> toISOString(t) ]

\* routes/api.js, router.get('/status'): the fields of the body read from
\* the aggregator and the collections
apiStatus(m, us, data, t) ==
    [ status |-> "running",
      requests_total |-> m.requests.total,
      requests_per_minute |-> m.requests.perMinute,
      response_time_avg |-> m.performance.averageResponseTime,
      data_count |-> Len(data),
      users_count |-> Len(us),
      timestamp |-> toISOString(t) ]

\* routes/api.js, router.get('/metrics'): the fields of the body read from
\* the aggregator and the collections
apiMetrics(m, us, data, t) ==
    [ application |->
        [ requests |->
            [ total |-> m.requests.total,
              success |-> m.requests.success,
              errors |-> m.requests.errors,
              per_minute |-> m.requests.perMinute ],
          performance |->
            [ average_response_time_ms |-> m.performance.averageResponseTime,
              min_response_time_ms |-> jsonNumber(m.performance.minResponseTime),
              max_response_time_ms |-> m.performance.maxResponseTime ],
          data |-> [ items_count |-> Len(data), users_count |-> Len(us) ] ],
      timestamp |-> toISOString(t) ]

\* handlers of which the clear-cache one does not reset the store
runHandler_noReset(handler, m, us, n, req, t) ==
    CASE handler = "admin.cacheClear" ->
            [ metrics |-> m, users |-> us, uuids |-> n, status |-> 200,
              body |-> [ success |-> TRUE, message |-> "Cache cleared successfully",
                         timestamp |-> toISOString(t) ] ]
      [] handler = "admin.stats" ->
            [ metrics |-> m, users |-> us, uuids |-> n, status |-> 200,
              body |-> adminStats(m, t) ]
      [] handler = "api.status" ->
            [ metrics |-> m, users |-> us, uuids |-> n, status |-> 200,
              body |-> apiStatus(m, us, applicationData, t) ]
      [] handler = "api.metrics" ->
            [ metrics |-> m, users |-> us, uuids |-> n, status |-> 200,
              body |-> apiMetrics(m, us, applicationData, t) ]
      [] handler = "api.postUsers" ->
            LET r == postUsers(us, parsedBody(req.body), t, n)
            IN [ metrics |-> m, users |-> r.users, uuids |-> r.uuids,
                 status |-> r.status, body |-> r.body ]
      [] handler = "notFound" ->
            [ metrics |-> m, users |-> us, uuids |-> n, status |-> 404,
              body |-> [ error |-> "Route not found", method |-> req.method,
                         path |-> req.path, timestamp |-> toISOString(t),
                         suggestion |-> "Check /docs for available endpoints" ] ]

\* the handler a request is routed to, run on the state it finds: the
\* aggregate, the users, the identifiers used, the status and the body
runHandler(handler, m, us, n, req, t) ==
    CASE handler = "admin.cacheClear" ->
            [ metrics |-> resetMetrics, users |-> us, uuids |-> n, status |-> 200,
              body |-> [ success |-> TRUE, message |-> "Cache cleared successfully",
                         timestamp |-> toISOString(t) ] ]
      [] handler = "admin.stats" ->
            [ metrics |-> m, users |-> us, uuids |-> n, status |-> 200,
              body |-> adminStats(m, t) ]
      [] handler = "api.status" ->
            [ metrics |-> m, users |-> us, uuids |-> n, status |-> 200,
              body |-> apiStatus(m, us, applicationData, t) ]
      [] handler = "api.metrics" ->
            [ metrics |-> m, users |-> us, uuids |-> n, status |-> 200,
              body |-> apiMetrics(m, us, applicationData, t) ]
      [] handler = "api.postUsers" ->
            LET r == postUsers(us, parsedBody(req.body), t, n)
            IN [ metrics |-> m, users |-> r.users, uuids |-> r.uuids,
                 status |-> r.status, body |-> r.body ]
      [] handler = "notFound" ->
            [ metrics |-> m, users |-> us, uuids |-> n, status |-> 404,
              body |-> [ error |-> "Route not found", method |-> req.method,
                         path |-> req.path, timestamp |-> toISOString(t),
                         suggestion |-> "Check /docs for available endpoints" ] ]

\* middleware/errorHandler.js for the error express.json() passes on: a
\* SyntaxError with status 400
errorHandler(req, t, e) ==
    LET statusCode == 400
        isDevelopment == e.NODE_ENV = Str("development")
    IN [ status |-> statusCode,
         body |-> [ error |-> [ message |-> "Unexpected token in JSON",
                                status |-> statusCode,
                                timestamp |-> toISOString(t),
                                path |-> req.path,
                                method |-> req.method,
                                stack |-> isDevelopment ] ] ]

\* whether the limiter counts the request, and whether it rejects it
limited(e, req) == rateLimitInstalled(e) /\ mounted(<<"api">>, req.path)
rejected(e, req, count, max) == limited(e, req) /\ count + 1 > max

\* app.js:57-70: the limiter answers 429 itself and calls no later layer
RateLimited(req) ==
    /\ served < MaxRequests
    /\ rejected(env, req, hits, RateMax)
    /\ hits' = hits + 1
    /\ served' = served + 1
    /\ response' = << Exchange(req.method, req.path, req.body, 429,
                        [ error |-> "Too many requests from this IP, please try again later.",
                          retryAfter |-> RateLimitWindowMs \div 1000 ]) >>
    /\ lastOp' = "rateLimit"
    /\ UNCHANGED <<metrics, now, snapshot, health, history, nCalls, recordedAt, period,
                   users, applicationData, uuids, env, loop, timer, hostVars>>

\* app.js:85 and 142: express.json() fails on the body and passes the error
\* on; Express skips every layer that is not an error handler, so
\* requestLogger, metricsCollector and the routes do not run
BodyParseError(req) ==
    /\ served < MaxRequests
    /\ ~rejected(env, req, hits, RateMax)
    /\ req.body = Malformed
    /\ hits' = IF limited(env, req) THEN hits + 1 ELSE hits
    /\ served' = served + 1
    /\ LET r == errorHandler(req, now, env)
       IN response' = << Exchange(req.method, req.path, req.body, r.status, r.body) >>
    /\ lastOp' = "errorHandler"
    /\ UNCHANGED <<metrics, now, snapshot, health, history, nCalls, recordedAt, period,
                   users, applicationData, uuids, env, loop, timer, hostVars>>

\* app.js:89-139 and metricsCollector.js: the request reaches
\* metricsCollector, which takes startTime and wraps res.end; the matching
\* handler runs and sends its response; res.end calls recordRequest and
\* then the original end
Routed(req, duration, ip, userAgent) ==
    /\ served < MaxRequests
    /\ ~rejected(env, req, hits, RateMax)
    /\ req.body # Malformed
    /\ hits' = IF limited(env, req) THEN hits + 1 ELSE hits
    /\ served' = served + 1
    /\ now' = now + duration
    /\ LET handler == appHandle(req.method, req.path)
           r == runHandler(handler, metrics, users, uuids, req, now')
           requestData == [ method |-> req.method,
                            path |-> reqPath(req.method, req.path),
                            statusCode |-> r.status,
                            responseTime |-> now' - now,
                            timestamp |-> toISOString(now'),
                            ip |-> ip,
                            userAgent |-> userAgent ]
           wasReset == handler = "admin.cacheClear"
           held == IF wasReset THEN heldAfterReset(snapshot, metrics) ELSE snapshot
       IN /\ metrics' = recordRequest(r.metrics, requestData, TimesCap, RecentCap)
          /\ snapshot' = heldAfterRecord(held, r.metrics, requestData, RecentCap)
          /\ history' = Append(IF wasReset THEN <<>> ELSE history, requestData)
          /\ recordedAt' = Append(IF wasReset THEN <<>> ELSE recordedAt, now')
          /\ nCalls' = nCalls + 1
          /\ users' = r.users
          /\ uuids' = r.uuids
          /\ response' = << Exchange(req.method, req.path, req.body, r.status, r.body) >>
          /\ lastOp' = handler
    /\ UNCHANGED <<health, period, applicationData, env, loop, timer, hostVars>>

SomeRateLimited == \E req \in HttpRequests : RateLimited(req)

SomeBodyParseError == \E req \in HttpRequests : BodyParseError(req)

SomeRouted ==
    \E req \in HttpRequests, duration \in HandlerMs, ip \in Ips, userAgent \in UserAgents :
        Routed(req, duration, ip, userAgent)

\* the server of a process started in one of the environments
InitHttp ==
    /\ metrics = NewMetrics
    /\ now = 0
    /\ snapshot = <<>>
    /\ health = <<>>
    /\ history = <<>>
    /\ nCalls = 0
    /\ lastOp = "constructor"
    /\ recordedAt = <<>>
    /\ period = <<>>
    /\ InitApi
    /\ InitApp
    /\ env \in Envs
    /\ loop = Idle
    /\ timer = NoTimer
    /\ InitHost

NextHttp ==
    \/ SomeRateLimited
    \/ SomeBodyParseError
    \/ SomeRouted

SpecHttp == InitHttp /\ [][NextHttp]_vars

\* the last response answers a request for the given method and path and
\* was not the limiter's
Answered(method, path) ==
    /\ response # <<>>
    /\ response[1].request.method = method
    /\ response[1].request.path = path
    /\ lastOp \notin {"rateLimit", "constructor"}

\* C17: a POST to /api/admin/cache/clear is answered by the handler that
\* calls resetMetrics, and a GET to /api/admin/stats by the admin stats
\* handler.
C17_AdminReachableAtDocumentedPaths ==
    /\ Answered("POST", <<"api", "admin", "cache", "clear">>) => lastOp = "admin.cacheClear"
    /\ Answered("GET", <<"api", "admin", "stats">>) => lastOp = "admin.stats"

\* C18: recordRequest has been invoked exactly once for every inbound
\* request that received a response.
C18_RecordedOncePerResponse == nCalls = served

(***************************************************************************)
(* The event loop: request completions, timer callbacks and reporting      *)
(* handlers are callbacks of one JavaScript thread; recordRequest is taken *)
(* statement by statement, so that an interleaving, if the runtime allowed *)
(* one, would show.                                                        *)
(***************************************************************************)
\* the status code and the response time of the completing requests
LoopInputs == { <<200, 100>>, <<500, 1501>> }

\* positions of the running callback: 0 none; 1 in res.end, before the call
\* of recordRequest; 2..10 before the statements of recordRequest at
\* metricsStore.js:40, 42-46, 49, 52-54, 57-59, 60-62, 65-66, 78, 81-83
FirstStatement == 2
LastStatement == 10

\* one statement of recordRequest, executed on this.metrics
recordStatement(pc, m, requestData, timesCap, recentCap) ==
    CASE pc = 2 -> [ m EXCEPT !.requests.total = @ + 1 ]
      [] pc = 3 -> IF IsSuccess(requestData.statusCode)
                   THEN [ m EXCEPT !.requests.success = @ + 1 ]
                   ELSE [ m EXCEPT !.requests.errors = @ + 1 ]
      [] pc = 4 -> [ m EXCEPT !.performance.responseTimes =
                                    Append(@, requestData.responseTime) ]
      [] pc = 5 -> IF Len(m.performance.responseTimes) > timesCap
                   THEN [ m EXCEPT !.performance.responseTimes = SliceLast(@, timesCap) ]
                   ELSE m
      [] pc = 6 -> IF requestData.responseTime < m.performance.minResponseTime
                   THEN [ m EXCEPT !.performance.minResponseTime = requestData.responseTime ]
                   ELSE m
      [] pc = 7 -> IF requestData.responseTime > m.performance.maxResponseTime
                   THEN [ m EXCEPT !.performance.maxResponseTime = requestData.responseTime ]
                   ELSE m
      [] pc = 8 -> [ m EXCEPT !.performance.averageResponseTime =
                                    MathRound(SumSeq(m.performance.responseTimes),
                                              Len(m.performance.responseTimes)) ]
      [] pc = 9 -> [ m EXCEPT !.recentRequests = unshiftRecent(@, requestData) ]
      [] pc = 10 -> IF Len(m.recentRequests) > recentCap
                    THEN [ m EXCEPT !.recentRequests = SliceFirst(@, recentCap) ]
                    ELSE m

\* a runtime that starts a callback while another is on the stack
CanDispatch_preemptive(l) == l.pc \in 0..LastStatement

\* Node runs each callback to completion: the loop takes the next callback
\* only when the stack is empty; recordRequest, calculateRequestsPerMinute,
\* getMetrics and the handlers contain no await and no callback boundary
CanDispatch(l) == l.pc = 0

\* a response that is not a report ends: res.end is entered
LoopRequestEnds(requestData) ==
    /\ CanDispatch(loop)
    /\ nCalls < MaxCalls
    /\ loop' = [ pc |-> 1, requestData |-> requestData, entry |-> <<>> ]
    /\ lastOp' = "res.end"
    /\ UNCHANGED <<metrics, now, snapshot, health, history, nCalls, recordedAt, period,
                   apiVars, appVars, timer, hostVars>>

\* a reporting handler runs: getMetrics(), the result serialized by
\* res.json in the same callback, and then res.end
LoopGetMetrics(method, path, duration, ip, userAgent) ==
    /\ CanDispatch(loop)
    /\ nCalls < MaxCalls
    /\ response' = << Exchange(method, path, NoBody, 200, View(getMetrics(now), metrics)) >>
    /\ loop' = [ pc |-> 1,
                 requestData |-> RequestData(method, path, 200, duration, ip, userAgent),
                 entry |-> <<>> ]
    /\ lastOp' = "getMetrics"
    /\ UNCHANGED <<metrics, now, snapshot, health, history, nCalls, recordedAt, period,
                   users, applicationData, uuids, appVars, timer, hostVars>>

\* metricsCollector.js:13: recordRequest is invoked
LoopInvoke ==
    /\ loop.pc = 1
    /\ loop' = [ loop EXCEPT !.pc = FirstStatement, !.entry = <<metrics>> ]
    /\ history' = Append(history, loop.requestData)
    /\ recordedAt' = Append(recordedAt, now)
    /\ nCalls' = nCalls + 1
    /\ lastOp' = "recordRequest"
    /\ UNCHANGED <<metrics, now, snapshot, health, period, apiVars, appVars, timer, hostVars>>

\* the running recordRequest executes its next statement, and returns after
\* the last
LoopStatement ==
    /\ loop.pc \in FirstStatement..LastStatement
    /\ metrics' = recordStatement(loop.pc, metrics, loop.requestData, TimesCap, RecentCap)
    /\ loop' = IF loop.pc = LastStatement
               THEN [ loop EXCEPT !.pc = 0 ]
               ELSE [ loop EXCEPT !.pc = @ + 1 ]
    /\ lastOp' = IF loop.pc = LastStatement THEN "return" ELSE "statement"
    /\ UNCHANGED <<now, snapshot, health, history, nCalls, recordedAt, period,
                   apiVars, appVars, timer, hostVars>>

\* the interval timer's callback
LoopTimer ==
    /\ CanDispatch(loop)
    /\ metrics' = calculateRequestsPerMinute(metrics, now)
    /\ lastOp' = "calculateRequestsPerMinute"
    /\ UNCHANGED <<now, snapshot, health, history, nCalls, recordedAt, period,
                   apiVars, appVars, loop, timer, hostVars>>

\* the clear-cache handler's resetMetrics()
LoopReset ==
    /\ CanDispatch(loop)
    /\ metrics' = resetMetrics
    /\ history' = <<>>
    /\ recordedAt' = <<>>
    /\ loop' = Idle
    /\ lastOp' = "resetMetrics"
    /\ UNCHANGED <<now, snapshot, health, nCalls, period, apiVars, appVars, timer, hostVars>>

\* the wall clock advances, whatever is on the stack
LoopTick ==
    /\ now < MaxTicks * TickMs
    /\ now' = now + TickMs
    /\ lastOp' = "tick"
    /\ UNCHANGED <<metrics, snapshot, health, history, nCalls, recordedAt, period,
                   apiVars, appVars, loop, timer, hostVars>>

SomeLoopRequestEnds ==
    \E method \in Methods, path \in Paths, input \in LoopInputs,
       ip \in Ips, userAgent \in UserAgents :
        LoopRequestEnds(RequestData(method, path, input[1], input[2], ip, userAgent))

SomeLoopGetMetrics ==
    \E method \in Methods, ip \in Ips, userAgent \in UserAgents :
        LoopGetMetrics(method, "/metrics", 100, ip, userAgent)

NextLoop ==
    \/ SomeLoopRequestEnds
    \/ SomeLoopGetMetrics
    \/ LoopInvoke
    \/ LoopStatement
    \/ LoopTimer
    \/ LoopReset
    \/ LoopTick

SpecLoop == Init /\ [][NextLoop]_vars

\* C19: whenever no recordRequest is in progress, requests.total is the
\* number of recordRequest invocations since construction or the last
\* reset; a recordRequest that returns has had exactly the effect of one
\* recordRequest on the aggregate it was invoked on, whatever callbacks
\* were dispatched in between; and every snapshot read shows that total,
\* at most TimesCap response times, at most RecentCap recent requests and
\* total = success + errors.
C19_NoLostUpdateNoIntermediateRead ==
    /\ loop.pc \in {0, 1} => metrics.requests.total = Len(history)
    /\ lastOp = "return" =>
            metrics = recordRequest(loop.entry[1], loop.requestData, TimesCap, RecentCap)
    /\ lastOp = "getMetrics" =>
            LET seen == response[1].body
            IN /\ seen.requests.total = Len(history)
               /\ seen.requests.total = seen.requests.success + seen.requests.errors
               /\ Len(seen.performance.responseTimes) <= TimesCap
               /\ Len(seen.recentRequests) <= RecentCap

\* a snapshot is read from full buffers after a completion, and its own
\* request is then recorded and evicts an entry of both buffers
C19_Witness ==
    /\ lastOp = "return"
    /\ loop.requestData.path = "/metrics"
    /\ response # <<>>
    /\ Len(response[1].body.recentRequests) = RecentCap
    /\ Len(response[1].body.performance.responseTimes) = TimesCap
    /\ metrics.requests.total = RecentCap + 1
    /\ metrics.requests.errors >= 1

(***************************************************************************)
(* The interval timer of the store: started by the constructor outside the *)
(* test environment, cancelled by cleanup().                               *)
(***************************************************************************)
\* cleanup() calls explored in one behaviour
MaxCleanups == 2
\* metricsStore.js:24, the interval in ms
IntervalMs == 60000
\* the status code and the response time of the requests recorded meanwhile
TimerInputs == { <<200, 100>>, <<500, 100>> }

\* process.env.NODE_ENV of the process that loads the store
TimerEnvs ==
    [ NODE_ENV : {Undefined, Str("development"), Str("production"), Str("test")},
      DISABLE_RATE_LIMIT : {Undefined} ]

\* the handle setInterval returns, and null
Timeout == <<"Timeout", 1>>
Null == <<"null">>

\* a constructor that starts the interval in every environment
startTimer_always(e, t) ==
    [ intervalId |-> Timeout, active |-> TRUE, due |-> t + IntervalMs, cleanups |-> 0 ]

\* metricsStore.js:20-25, the timer part of the constructor at instant t:
\* this.intervalId; whether the runtime holds the interval and when it is
\* next due; ghost: the number of cleanup() calls so far
startTimer(e, t) ==
    IF e.NODE_ENV # Str("test")
    THEN [ intervalId |-> Timeout, active |-> TRUE, due |-> t + IntervalMs, cleanups |-> 0 ]
    ELSE NoTimer

\* a cleanup that forgets the handle without clearing the interval
cleanup_forgetsHandle(tm) ==
    IF tm.intervalId = Timeout
    THEN [ tm EXCEPT !.intervalId = Null ]
    ELSE tm

\* metricsStore.cleanup(): undefined and null are falsy
cleanup(tm) ==
    IF tm.intervalId = Timeout
    THEN [ tm EXCEPT !.intervalId = Null, !.active = FALSE ]
    ELSE tm

\* the runtime runs the interval's callback, calculateRequestsPerMinute, and
\* schedules the next run
TimerFires ==
    /\ timer.active
    /\ now >= timer.due
    /\ metrics' = calculateRequestsPerMinute(metrics, now)
    /\ timer' = [ timer EXCEPT !.due = now + IntervalMs ]
    /\ lastOp' = "timerFires"
    /\ UNCHANGED <<now, snapshot, health, history, nCalls, recordedAt, period,
                   apiVars, appVars, loop, hostVars>>

\* metricsStore.cleanup()
Cleanup ==
    /\ timer.cleanups < MaxCleanups
    /\ timer' = [ cleanup(timer) EXCEPT !.cleanups = @ + 1 ]
    /\ lastOp' = "cleanup"
    /\ UNCHANGED <<metrics, now, snapshot, health, history, nCalls, recordedAt, period,
                   apiVars, appVars, loop, hostVars>>

TimerRecordRequest ==
    \E method \in Methods, path \in Paths, input \in TimerInputs,
       ip \in Ips, userAgent \in UserAgents :
        RecordRequest(RequestData(method, path, input[1], input[2], ip, userAgent))

\* the store of a process started in one of the environments
InitTimer ==
    /\ metrics = NewMetrics
    /\ now = 0
    /\ snapshot = <<>>
    /\ health = <<>>
    /\ history = <<>>
    /\ nCalls = 0
    /\ lastOp = "constructor"
    /\ recordedAt = <<>>
    /\ period = <<>>
    /\ InitApi
    /\ InitApp
    /\ loop = Idle
    /\ env \in TimerEnvs
    /\ timer = startTimer(env, now)
    /\ InitHost

NextTimer ==
    \/ TimerRecordRequest
    \/ TimerFires
    \/ Cleanup
    \/ ResetMetrics
    \/ Tick

SpecTimer == InitTimer /\ [][NextTimer]_vars

\* C20: once cleanup() has been called the timer's callback never runs
\* again, and perMinute and peakRPM change only by resetMetrics; a cleanup()
\* after the first changes neither this.intervalId nor the runtime's timers;
\* and no cleanup() changes the aggregate.
C20_CleanupCancelsTimer ==
    [][ /\ timer.cleanups >= 1 =>
            /\ lastOp' # "timerFires"
            /\ ~timer'.active
            /\ \/ lastOp' = "resetMetrics"
               \/ /\ metrics'.requests.perMinute = metrics.requests.perMinute
                  /\ metrics'.requests.peakRPM = metrics.requests.peakRPM
        /\ (lastOp' = "cleanup" /\ timer.cleanups >= 1) =>
            /\ timer'.intervalId = timer.intervalId
            /\ timer'.active = timer.active
        /\ lastOp' = "cleanup" => metrics' = metrics ]_vars

\* the timer ran on recorded traffic, cleanup() was then called twice, and
\* the clock has reached the instant the interval was next due
C20_Witness ==
    /\ timer.cleanups = 2
    /\ timer.intervalId = Null
    /\ metrics.requests.perMinute >= 1
    /\ now >= timer.due

(***************************************************************************)
(* Shutdown (app.js:144-175): the SIGTERM and SIGINT handlers of the       *)
(* server process.                                                         *)
(***************************************************************************)
\* signals delivered in one behaviour
MaxSignals == 2
Signals == {"SIGTERM", "SIGINT"}

\* app.js:145-159, either handler: it logs and evaluates server.close(...).
\* server is a const of the block at app.js:162-175 and is not in scope in
\* the handler, so the call throws a ReferenceError before close or
\* process.exit is reached; the logger handles uncaught exceptions with
\* exitOnError: false (logger.js:92-97), so the process keeps running.
\* The handler does not call metricsStore.cleanup().
onSignal(p) == [ p EXCEPT !.signals = @ + 1 ]

\* a signal is delivered to the process
Signal(sig) ==
    /\ proc.state = "running"
    /\ proc.signals < MaxSignals
    /\ proc' = onSignal(proc)
    /\ lastOp' = sig
    /\ UNCHANGED <<metrics, now, snapshot, health, history, nCalls, recordedAt, period,
                   apiVars, appVars, loop, timer, monitor>>

SomeSignal == \E sig \in Signals : Signal(sig)

NextShutdown ==
    \/ TimerRecordRequest
    \/ TimerFires
    \/ SomeSignal
    \/ Tick

SpecShutdown == InitTimer /\ [][NextShutdown]_vars

\* C21: once a SIGTERM or SIGINT has been delivered, the store's interval
\* is no longer active.
C21_TimerCancelledAtShutdown == proc.signals >= 1 => ~timer.active

\* C22 as stated: in every execution that is not a production one the
\* interval's callback never runs and perMinute stays 0.
C22_NoTimerOutsideProduction ==
    env.NODE_ENV # Str("production") =>
        /\ lastOp # "timerFires"
        /\ metrics.requests.perMinute = 0

\* C22: in a process whose NODE_ENV is 'test' the constructor leaves
\* this.intervalId undefined and starts no interval, its callback never
\* runs, and perMinute and peakRPM stay 0 whatever is recorded and however
\* far the clock advances.
C22_NoTimerInTest ==
    env.NODE_ENV = Str("test") =>
        /\ timer.intervalId = Undefined
        /\ ~timer.active
        /\ lastOp # "timerFires"
        /\ metrics.requests.perMinute = 0
        /\ metrics.requests.peakRPM = 0

\* in the test environment requests were recorded and the clock has passed
\* the instant an interval would have been due
C22_Witness ==
    /\ env.NODE_ENV = Str("test")
    /\ metrics.requests.total >= 2
    /\ now >= IntervalMs
    /\ recordedAt[Len(recordedAt)] >= now - WindowMs

(***************************************************************************)
(* The two rate readings together: the recomputation of perMinute and      *)
(* getMetricsForPeriod on the same traffic.                                *)
(***************************************************************************)
NextRates ==
    \/ TimerRecordRequest
    \/ CalculateRequestsPerMinute
    \/ SomeGetMetricsForPeriod
    \/ ResetMetrics
    \/ Tick

SpecRates == Init /\ [][NextRates]_vars

\* C23: perMinute and peakRPM never exceed the capacity of recentRequests,
\* and neither does the requests count of a getMetricsForPeriod result,
\* however many requests were recorded within the window.
C23_RatesBoundedByBuffer ==
    /\ metrics.requests.perMinute <= RecentCap
    /\ metrics.requests.peakRPM <= RecentCap
    /\ period # <<>> => period[1].requests <= RecentCap

\* more requests than the buffer holds were recorded within the last 60
\* seconds, and the recomputed rate is the capacity
C23_Witness ==
    /\ lastOp = "calculateRequestsPerMinute"
    /\ Cardinality(CallsWithin(WindowMs)) > RecentCap
    /\ metrics.requests.perMinute = RecentCap
    /\ metrics.requests.peakRPM = RecentCap
    /\ period # <<>>
    /\ period[1].requests = RecentCap

\* C24: in every getMetricsForPeriod result requests = success + errors,
\* and errors is the number of entries of the period that recordRequest
\* counted as errors, status codes below 200 included.
C24_PeriodPartitions ==
    lastOp = "getMetricsForPeriod" =>
        LET minutes == period[1].period[1]
            inPeriod == EntriesWithin(minutes * 60 * 1000)
        IN /\ period[1].requests = period[1].success + period[1].errors
           /\ period[1].errors =
                Cardinality({ i \in inPeriod : ~IsSuccess(metrics.recentRequests[i].statusCode) })

(***************************************************************************)
(* Every operation of the store on one aggregate: the two writers and the  *)
(* three readers, with the objects the readers return.                     *)
(***************************************************************************)
\* getMetricsForPeriod() with its default period of 5 minutes
DefaultGetMetricsForPeriod == GetMetricsForPeriod(5)

NextFrame ==
    \/ TimerRecordRequest
    \/ CalculateRequestsPerMinute
    \/ GetMetrics
    \/ GetHealthSummary
    \/ DefaultGetMetricsForPeriod

SpecFrame == Init /\ [][NextFrame]_vars

\* C25: recordRequest leaves perMinute and peakRPM unchanged;
\* calculateRequestsPerMinute leaves everything but perMinute and peakRPM
\* unchanged; getMetrics, getHealthSummary and getMetricsForPeriod leave
\* the whole aggregate unchanged.
C25_OperationsKeepTheirFrame ==
    [][ /\ lastOp' = "recordRequest" =>
            /\ metrics'.requests.perMinute = metrics.requests.perMinute
            /\ metrics'.requests.peakRPM = metrics.requests.peakRPM
        /\ lastOp' = "calculateRequestsPerMinute" =>
            WithoutRates(metrics') = WithoutRates(metrics)
        /\ lastOp' \in {"getMetrics", "getHealthSummary", "getMetricsForPeriod"} =>
            metrics' = metrics ]_vars

\* a request was recorded after the rate had been computed, and each of the
\* three readers has returned an object
C25_Witness ==
    /\ lastOp = "recordRequest"
    /\ metrics.requests.perMinute >= 1
    /\ metrics.requests.total > metrics.requests.perMinute
    /\ snapshot # <<>>
    /\ health # <<>>
    /\ period # <<>>

(***************************************************************************)
(* The reporting endpoints and the clear-cache endpoint behind the whole   *)
(* middleware chain, in the test environment.                              *)
(***************************************************************************)
\* the three reporting requests, the clear-cache request at the path its
\* mount gives it, a request no layer serves and a POST whose body is not
\* JSON
ReportRequests ==
    { [ method |-> "GET", path |-> <<"api", "status">>, body |-> NoBody ],
      [ method |-> "GET", path |-> <<"api", "metrics">>, body |-> NoBody ],
      [ method |-> "GET", path |-> <<"admin", "api", "stats">>, body |-> NoBody ],
      [ method |-> "POST", path |-> <<"admin", "api", "cache", "clear">>, body |-> NoBody ],
      [ method |-> "GET", path |-> <<"nowhere">>, body |-> NoBody ],
      [ method |-> "POST", path |-> <<"api", "users">>, body |-> Malformed ] }

ReportRouted ==
    \E req \in ReportRequests, duration \in HandlerMs, ip \in Ips, userAgent \in UserAgents :
        Routed(req, duration, ip, userAgent)

ReportBodyParseError == \E req \in ReportRequests : BodyParseError(req)

NextReport ==
    \/ ReportRouted
    \/ ReportBodyParseError

SpecReport == Init /\ [][NextReport]_vars

\* C26: when the response of the clear-cache request has ended, the
\* aggregate holds exactly that request: total 1, success 1, errors 0, one
\* response time and one recent request, the POST answered 200.
C26_ClearCacheRecordsItself ==
    lastOp = "admin.cacheClear" =>
        /\ metrics.requests.total = 1
        /\ metrics.requests.success = 1
        /\ metrics.requests.errors = 0
        /\ Len(metrics.performance.responseTimes) = 1
        /\ Len(metrics.recentRequests) = 1
        /\ metrics.recentRequests[1].method = "POST"
        /\ metrics.recentRequests[1].statusCode = 200
        /\ metrics # resetMetrics

\* the cache was cleared after two other requests had been recorded
C26_Witness ==
    /\ lastOp = "admin.cacheClear"
    /\ nCalls >= 3
    /\ Len(history) = 1

\* the total a reporting response carries
ReportedTotal ==
    CASE lastOp = "api.status" -> response[1].body.requests_total
      [] lastOp = "api.metrics" -> response[1].body.application.requests.total
      [] lastOp = "admin.stats" -> response[1].body.performance.requests.total

\* C27: the total a reporting response carries is the number of requests
\* whose response had ended before its handler ran, i.e. every response so
\* far but its own (stated for behaviours without a reset).
C27_ReportExcludesOnlyItself ==
    (lastOp \in {"api.status", "api.metrics", "admin.stats"} /\ ~WasReset) =>
        ReportedTotal = served - 1

(***************************************************************************)
(* The browser's SystemMonitor (public/js/monitoring.js): starting and     *)
(* stopping the polling of the server's reporting endpoints.               *)
(***************************************************************************)
\* startMonitoring calls that pass the isRunning check in one behaviour
MaxStarts == 4

\* startMonitoring() up to its await: nothing when already running;
\* otherwise isRunning is set and the call is suspended awaiting
\* updateSystemData(), which catches its own errors and always resolves
startMonitoring(mon) ==
    IF mon.isRunning THEN mon
    ELSE [ mon EXCEPT !.isRunning = TRUE, !.awaiting = @ + 1 ]

\* startMonitoring() after its await: setInterval is called and its handle
\* stored, whatever isRunning is by now
resumeStartMonitoring(mon) ==
    [ mon EXCEPT !.monitoringInterval = mon.handles + 1,
                 !.intervals = @ \cup {mon.handles + 1},
                 !.handles = @ + 1,
                 !.awaiting = @ - 1 ]

\* stopMonitoring(): null is falsy
stopMonitoring(mon) ==
    IF ~mon.isRunning THEN mon
    ELSE IF mon.monitoringInterval # 0
         THEN [ mon EXCEPT !.isRunning = FALSE,
                           !.intervals = @ \ {mon.monitoringInterval},
                           !.monitoringInterval = 0 ]
         ELSE [ mon EXCEPT !.isRunning = FALSE ]

\* toggleMonitoring()
toggleMonitoring(mon) ==
    IF mon.isRunning THEN stopMonitoring(mon) ELSE startMonitoring(mon)

\* saveSettings(): the restart of a running monitor; the new
\* startMonitoring is scheduled with setTimeout
saveSettings(mon) ==
    IF mon.isRunning
    THEN [ stopMonitoring(mon) EXCEPT !.timeouts = @ + 1 ]
    ELSE mon

\* the started calls so far and the ones a pending timeout may still make
starts(mon) == mon.handles + mon.awaiting + mon.timeouts

\* an operation of the page changes the monitor and nothing else
MonitorStep(op, mon) ==
    /\ monitor' = mon
    /\ lastOp' = op
    /\ UNCHANGED <<metrics, now, snapshot, health, history, nCalls, recordedAt, period,
                   apiVars, appVars, loop, timer, proc>>

\* a click on the toggle button
ToggleMonitoring ==
    /\ starts(monitor) < MaxStarts
    /\ MonitorStep("toggleMonitoring", toggleMonitoring(monitor))

StartMonitoring ==
    /\ starts(monitor) < MaxStarts
    /\ MonitorStep("startMonitoring", startMonitoring(monitor))

StopMonitoring == MonitorStep("stopMonitoring", stopMonitoring(monitor))

SaveSettings ==
    /\ starts(monitor) < MaxStarts
    /\ MonitorStep("saveSettings", saveSettings(monitor))

\* the timeout of saveSettings runs startMonitoring()
RestartTimeout ==
    /\ monitor.timeouts > 0
    /\ MonitorStep("restart", startMonitoring([ monitor EXCEPT !.timeouts = @ - 1 ]))

\* the awaited initial fetch of a suspended startMonitoring completes
FetchCompletes ==
    /\ monitor.awaiting > 0
    /\ MonitorStep("fetchCompletes", resumeStartMonitoring(monitor))

NextMonitor ==
    \/ ToggleMonitoring
    \/ StartMonitoring
    \/ StopMonitoring
    \/ SaveSettings
    \/ RestartTimeout
    \/ FetchCompletes

SpecMonitor == Init /\ [][NextMonitor]_vars

\* C28: at most one polling interval is active at any time, and none is
\* active while isRunning is false.
C28_AtMostOnePollingTimer ==
    /\ Cardinality(monitor.intervals) <= 1
    /\ ~monitor.isRunning => monitor.intervals = {}

(***************************************************************************)
(* The running extremes and the average of the response times.             *)
(***************************************************************************)
\* C29: once a sample has been recorded since construction or the last
\* reset, min <= average <= max, whatever has been evicted from the buffer;
\* before the first sample min is the sentinel Infinity, max is 0 and the
\* average is 0.
C29_AverageBetweenMinAndMax ==
    LET p == metrics.performance
    IN /\ history /= <<>> =>
            /\ p.minResponseTime <= p.averageResponseTime
            /\ p.averageResponseTime <= p.maxResponseTime
       /\ history = <<>> =>
            /\ p.minResponseTime = Infinity
            /\ p.maxResponseTime = 0
            /\ p.averageResponseTime = 0

\* C29 witness: a sample has been evicted and is still the maximum, above
\* every sample the average is taken over
C29_Witness ==
    /\ Len(history) > TimesCap
    /\ metrics.performance.maxResponseTime > SeqMax(Times)
    /\ metrics.performance.averageResponseTime < metrics.performance.maxResponseTime

(***************************************************************************)
(* GET /api/data: the page of the collection a query asks for.             *)
(***************************************************************************)
\* a JavaScript number; a string of decimal digits is Str of its digits,
\* "12" being Str(<<1, 2>>)
Num(n) == <<"number", n>>

\* the number a string of digits converts to
RECURSIVE digitsToNumber(_)
digitsToNumber(ds) ==
    IF ds = <<>> THEN 0
    ELSE 10 * digitsToNumber(SubSeq(ds, 1, Len(ds) - 1)) + ds[Len(ds)]

\* the digits a non-negative integer is written with
RECURSIVE numberToDigits(_)
numberToDigits(n) ==
    IF n < 10 THEN <<n>> ELSE numberToDigits(n \div 10) \o <<n % 10>>

\* ToNumber(v), the conversion slice() and < apply to an operand
ToNumber(v) == IF v[1] = "number" THEN v[2] ELSE digitsToNumber(v[2])

\* parseInt(v) of a non-negative integer or of a string of digits
parseInt(v) == ToNumber(v)

\* a + n where n is a number: the sum of two numbers, and the concatenation
\* of a string with the digits of n
Plus(a, n) ==
    IF a[1] = "number" THEN Num(a[2] + n) ELSE Str(a[2] \o numberToDigits(n))

\* array.slice(start, end) for non-negative start and end
slice(array, start, end) ==
    SubSeq(array, Min(start, Len(array)) + 1, Min(end, Len(array)))

\* array.filter(item => item.type === type)
RECURSIVE filterType(_, _)
filterType(array, type) ==
    IF array = <<>> THEN <<>>
    ELSE IF Head(array).type = type
         THEN <<Head(array)>> \o filterType(Tail(array), type)
         ELSE filterType(Tail(array), type)

\* the query strings of a GET /api/data: each parameter absent or supplied
DataQueries ==
    [ limit : {Undefined, Str(<<1>>), Str(<<2>>)},
      offset : {Undefined, Str(<<0>>), Str(<<1>>)},
      type : {Undefined, Str("test")} ]

\* router.get('/data'): the body sent for a query
getData(data, query, t) ==
    LET limit == IF query.limit = Undefined THEN Num(10) ELSE query.limit
        offset == IF query.offset = Undefined THEN Num(0) ELSE query.offset
        filteredData == IF Falsy(query.type) THEN data ELSE filterType(data, query.type)
        end == Plus(offset, parseInt(limit))
    IN [ data |-> slice(filteredData, ToNumber(offset), ToNumber(end)),
         total |-> Len(filteredData),
         limit |-> parseInt(limit),
         offset |-> parseInt(offset),
         has_more |-> ToNumber(end) < Len(filteredData),
         timestamp |-> toISOString(t) ]

\* GET /api/data
GetData(query) ==
    /\ response' = << Exchange("GET", "/api/data", query, 200,
                               getData(applicationData, query, now)) >>
    /\ lastOp' = "getData"
    /\ UNCHANGED <<users, applicationData, uuids, metrics, now, snapshot, health, history,
                   nCalls, recordedAt, period, appVars, loop, timer, hostVars>>

SomeGetData == \E query \in DataQueries : GetData(query)

NextData ==
    \/ SomePostData
    \/ SomeDeleteData
    \/ SomeGetData

SpecData == Init /\ [][NextData]_vars

\* the offset and the limit a query asks for, and the collection it selects
AskedOffset(query) == IF query.offset = Undefined THEN 0 ELSE digitsToNumber(query.offset[2])
AskedLimit(query) == IF query.limit = Undefined THEN 10 ELSE digitsToNumber(query.limit[2])
Selected(query) ==
    IF query.type = Undefined THEN applicationData
    ELSE filterType(applicationData, query.type)

\* C30: a GET /api/data with offset o and limit l answers exactly the items
\* at positions o .. o+l-1 of the selected collection, never more than l of
\* them, and has_more exactly when o + l < total.
C30_PageIsExact ==
    lastOp = "getData" =>
        LET query == response[1].request.body
            body == response[1].body
            o == AskedOffset(query)
            l == AskedLimit(query)
            all == Selected(query)
            first == Min(o, Len(all))
            last == Min(o + l, Len(all))
        IN /\ body.data = [ i \in 1..(last - first) |-> all[first + i] ]
           /\ Len(body.data) <= l
           /\ body.has_more <=> (o + l < Len(all))

====
